---------------------------- MODULE Spec2Model ----------------------------
(***************************************************************************)
(* A model of the GlitchText engine of                                     *)
(* apps/frontend/scripts/generate-favicon.ts: the hover-driven timeline,   *)
(* the debounced resize, the GPU resource lifecycle and the fragment       *)
(* shader's per-tile flip rule.                                            *)
(*                                                                         *)
(* Conventions.                                                            *)
(*  - Times are integers in milliseconds.  The source keeps the elapsed    *)
(*    time and the durations in seconds (deltaTime = ms / 1000); every     *)
(*    quantity the model compares is a ratio of two times, so the unit     *)
(*    cancels.                                                             *)
(*  - Real numbers are exact rationals <<n, d>> in lowest terms with       *)
(*    d > 0.  <<0, 0>> is NaN and <<1, 0>> is +Infinity, which only an     *)
(*    uninitialised shader variable or a division by zero can produce.     *)
(*    Floating-point rounding is not modelled.                             *)
(*  - JavaScript's undefined is the empty tuple.                           *)
(***************************************************************************)
EXTENDS Integers, Sequences, FiniteSets, TLC

(***************************************************************************)
(* Bounds of the model.                                                    *)
(***************************************************************************)
\* Wall-clock time advances in steps of TickMs milliseconds.
TickMs == 50

\* At most MaxTicks steps of time pass between two frame callbacks.
MaxTicks == 2

\* At most MaxRegenerations settled resizes happen in one run.
MaxRegenerations == 1

\* The largest text canvas scanned for presence, in pixels, and the largest
\* number of tiles across it.
MaxTextCanvasWidth == 5

MaxTextCanvasHeight == 2

MaxTiles == 3

(***************************************************************************)
(* Exact rational arithmetic.                                              *)
(***************************************************************************)
Abs(x) == IF x < 0 THEN -x ELSE x

Min(a, b) == IF a < b THEN a ELSE b

Max(a, b) == IF a > b THEN a ELSE b

RECURSIVE GCD(_, _)
GCD(a, b) == IF b = 0 THEN a ELSE GCD(b, a % b)

NaN == <<0, 0>>

Inf == <<1, 0>>

Frac(n, d) ==
    IF d = 0 THEN (IF n = 0 THEN NaN ELSE Inf)
    ELSE LET s == IF d < 0 THEN -1 ELSE 1
             g == GCD(Abs(n), Abs(d))
         IN  <<(s * n) \div g, (s * d) \div g>>

Zero == <<0, 1>>

One == <<1, 1>>

Half == <<1, 2>>

IsFinite(a) == a[2] # 0

IsNaN(a) == a = NaN

\* Sums and products cancel common factors before multiplying, which
\* keeps the intermediate integers small.
AddFinite(a, b) ==
    LET g == GCD(a[2], b[2])
    IN  Frac(a[1] * (b[2] \div g) + b[1] * (a[2] \div g), (a[2] \div g) * b[2])

MulFinite(a, b) ==
    LET g1 == GCD(Abs(a[1]), b[2])
        g2 == GCD(Abs(b[1]), a[2])
    IN  Frac((a[1] \div g1) * (b[1] \div g2), (a[2] \div g2) * (b[2] \div g1))

RAdd(a, b) ==
    IF IsNaN(a) \/ IsNaN(b) THEN NaN
    ELSE IF ~IsFinite(a) \/ ~IsFinite(b) THEN Inf
    ELSE AddFinite(a, b)

RSub(a, b) ==
    IF ~IsFinite(a) \/ ~IsFinite(b) THEN NaN
    ELSE AddFinite(a, <<-b[1], b[2]>>)

RMul(a, b) ==
    IF IsNaN(a) \/ IsNaN(b) THEN NaN
    ELSE IF ~IsFinite(a) \/ ~IsFinite(b)
         THEN (IF a = Zero \/ b = Zero THEN NaN ELSE Inf)
    ELSE MulFinite(a, b)

RDiv(a, b) ==
    IF ~IsFinite(a) \/ ~IsFinite(b) THEN NaN
    ELSE IF b[1] = 0 THEN (IF a[1] = 0 THEN NaN ELSE Inf)
    ELSE IF b[1] < 0 THEN MulFinite(a, <<-b[2], -b[1]>>)
    ELSE MulFinite(a, <<b[2], b[1]>>)

\* IEEE comparisons: every comparison with NaN is false.
RLess(a, b) ==
    IF IsNaN(a) \/ IsNaN(b) THEN FALSE
    ELSE IF ~IsFinite(a) THEN FALSE
    ELSE IF ~IsFinite(b) THEN TRUE
    ELSE LET g == GCD(a[2], b[2])
         IN  a[1] * (b[2] \div g) < b[1] * (a[2] \div g)

RLeq(a, b) ==
    IF IsNaN(a) \/ IsNaN(b) THEN FALSE
    ELSE a = b \/ RLess(a, b)

(***************************************************************************)
(* Configuration: GlitchTextConfig, DEFAULTS and validateConfig.           *)
(* The three texts and the font family only reach the rasteriser and are   *)
(* left out of the record.                                                 *)
(***************************************************************************)
Undefined == <<>>

\* An option is <<>> when the caller's object has no such key and <<v>>
\* when it has the key with value v (v may be Undefined).
NotGiven == <<>>

Given(v) == <<v>>

DefaultInitialWaitDuration == 200

DefaultAllTilesFlipDuration == 500

DefaultSingleTileFlipDuration == 100

DefaultWaitBetweenFlipsDuration == 300

DefaultFinalWaitDuration == 200

DefaultResizeDebounceMs == 100

DefaultTileDimension == 8

DEFAULTS ==
    [ tiles                    |-> NotGiven,
      tileDimensions           |-> Given(<<DefaultTileDimension, DefaultTileDimension>>),
      initialWaitDuration      |-> Given(DefaultInitialWaitDuration),
      allTilesFlipDuration     |-> Given(DefaultAllTilesFlipDuration),
      singleTileFlipDuration   |-> Given(DefaultSingleTileFlipDuration),
      waitBetweenFlipsDuration |-> Given(DefaultWaitBetweenFlipsDuration),
      finalWaitDuration        |-> Given(DefaultFinalWaitDuration),
      invertThreshold          |-> Given(Zero),
      resizeDebounceMs         |-> Given(DefaultResizeDebounceMs) ]

ConfigKeys == DOMAIN DEFAULTS

\* The caller's options object with no key set.
NoOptions == [k \in ConfigKeys |-> NotGiven]

\* { ...DEFAULTS, ...options }: a key of options, even one set to
\* undefined, overrides the default.
MergeConfig(options) ==
    [k \in ConfigKeys |->
        IF options[k] # NotGiven THEN options[k][1]
        ELSE IF DEFAULTS[k] # NotGiven THEN DEFAULTS[k][1]
        ELSE Undefined]

\* Mutants of validateConfig: the order of the two flip durations is not
\* checked; the threshold's end points are rejected; tiles together with
\* tileDimensions is let through.
validateConfigNoOrderCheck(config) ==
    /\ ~(config.allTilesFlipDuration <= 0)
    /\ ~(config.singleTileFlipDuration <= 0)
    /\ ~(RLess(config.invertThreshold, Zero) \/ RLess(One, config.invertThreshold))
    /\ ~(config.tiles # Undefined /\ (config.tiles[1] < 1 \/ config.tiles[2] < 1))
    /\ ~(config.tileDimensions # Undefined
         /\ (config.tileDimensions[1] <= 0 \/ config.tileDimensions[2] <= 0))
    /\ ~(config.tiles # Undefined /\ config.tileDimensions # Undefined)

validateConfigOpenThreshold(config) ==
    /\ ~(config.singleTileFlipDuration > config.allTilesFlipDuration)
    /\ ~(config.allTilesFlipDuration <= 0)
    /\ ~(config.singleTileFlipDuration <= 0)
    /\ ~(RLeq(config.invertThreshold, Zero) \/ RLeq(One, config.invertThreshold))
    /\ ~(config.tiles # Undefined /\ (config.tiles[1] < 1 \/ config.tiles[2] < 1))
    /\ ~(config.tileDimensions # Undefined
         /\ (config.tileDimensions[1] <= 0 \/ config.tileDimensions[2] <= 0))
    /\ ~(config.tiles # Undefined /\ config.tileDimensions # Undefined)

validateConfigAllowsBoth(config) ==
    /\ ~(config.singleTileFlipDuration > config.allTilesFlipDuration)
    /\ ~(config.allTilesFlipDuration <= 0)
    /\ ~(config.singleTileFlipDuration <= 0)
    /\ ~(RLess(config.invertThreshold, Zero) \/ RLess(One, config.invertThreshold))
    /\ ~(config.tiles # Undefined /\ (config.tiles[1] < 1 \/ config.tiles[2] < 1))
    /\ ~(config.tileDimensions # Undefined
         /\ (config.tileDimensions[1] <= 0 \/ config.tileDimensions[2] <= 0))

\* validateConfig returns normally (TRUE) or throws (FALSE).
validateConfig(config) ==
    /\ ~(config.singleTileFlipDuration > config.allTilesFlipDuration)
    /\ ~(config.allTilesFlipDuration <= 0)
    /\ ~(config.singleTileFlipDuration <= 0)
    /\ ~(RLess(config.invertThreshold, Zero) \/ RLess(One, config.invertThreshold))
    /\ ~(config.tiles # Undefined /\ (config.tiles[1] < 1 \/ config.tiles[2] < 1))
    /\ ~(config.tileDimensions # Undefined
         /\ (config.tileDimensions[1] <= 0 \/ config.tileDimensions[2] <= 0))
    /\ ~(config.tiles # Undefined /\ config.tileDimensions # Undefined)

\* Mutant of calculateTiles: the quotient is not raised to at least 1.
calculateTilesUnclamped(config, width, height) ==
    IF config.tiles # Undefined THEN config.tiles
    ELSE IF config.tileDimensions # Undefined
         THEN <<width \div config.tileDimensions[1],
                height \div config.tileDimensions[2]>>
    ELSE <<1, 1>>

calculateTiles(config, width, height) ==
    IF config.tiles # Undefined THEN config.tiles
    ELSE IF config.tileDimensions # Undefined
         THEN <<Max(1, width \div config.tileDimensions[1]),
                Max(1, height \div config.tileDimensions[2])>>
    ELSE <<1, 1>>

totalDuration(config) ==
    config.initialWaitDuration + config.allTilesFlipDuration
    + config.waitBetweenFlipsDuration + config.allTilesFlipDuration
    + config.finalWaitDuration

(***************************************************************************)
(* The fragment shader (getFragmentShader), evaluated at one fragment.     *)
(*   u       the uniform values the draw call reads                        *)
(*   s       what the fragment samples: its tile's noise = random(tileUV), *)
(*           the texel of each text texture at vUv and the byte of each    *)
(*           presence texture at presenceUV                                *)
(*   garbage the value an uninitialised float holds                        *)
(***************************************************************************)
Clamp(x, lo, hi) == IF RLess(x, lo) THEN lo ELSE IF RLess(hi, x) THEN hi ELSE x

\* GLSL max(x, y): y when x < y, else x.
RMax(x, y) == IF RLess(x, y) THEN y ELSE x

\* GLSL smoothstep(edge0, edge1, x).
smoothstep(edge0, edge1, x) ==
    LET t == Clamp(RDiv(RSub(x, edge0), RSub(edge1, edge0)), Zero, One)
    IN  RMul(RMul(t, t), RSub(Frac(3, 1), RMul(Frac(2, 1), t)))

\* GLSL step(edge, x): 0.0 when x < edge, else 1.0.
step(edge, x) == IF RLess(x, edge) THEN Zero ELSE One

\* GLSL mix(x, y, a) on one component.
mix1(x, y, a) == RAdd(RMul(x, RSub(One, a)), RMul(y, a))

\* GLSL mix(x, y, a) on a colour [rgb, a].
mix(x, y, a) == [rgb |-> mix1(x.rgb, y.rgb, a), a |-> mix1(x.a, y.a, a)]

\* A RedFormat / UnsignedByteType texel read as a float: byte / 255.
PresenceSample(byte) == Frac(byte, 255)

shaderTotalDuration(u) ==
    u.uInitialWaitDuration + 2 * u.uAllTilesFlipDuration
    + u.uWaitBetweenFlipsDuration + u.uFinalWaitDuration

initialWaitEnd(u) == Frac(u.uInitialWaitDuration, shaderTotalDuration(u))

flipABEnd(u) ==
    Frac(u.uInitialWaitDuration + u.uAllTilesFlipDuration, shaderTotalDuration(u))

waitBetweenEnd(u) ==
    Frac(u.uInitialWaitDuration + u.uAllTilesFlipDuration
         + u.uWaitBetweenFlipsDuration, shaderTotalDuration(u))

flipBCEnd(u) ==
    Frac(u.uInitialWaitDuration + u.uAllTilesFlipDuration
         + u.uWaitBetweenFlipsDuration + u.uAllTilesFlipDuration,
         shaderTotalDuration(u))

\* Mutant of ShaderPhase: each phase keeps its end point.
ShaderPhaseClosedIntervals(u) ==
    IF RLeq(u.uMorphProgress, initialWaitEnd(u)) THEN "holdA"
    ELSE IF RLeq(u.uMorphProgress, flipABEnd(u)) THEN "flipAB"
    ELSE IF RLeq(u.uMorphProgress, waitBetweenEnd(u)) THEN "holdB"
    ELSE IF RLeq(u.uMorphProgress, flipBCEnd(u)) THEN "flipBC"
    ELSE "holdC"

\* The branch of main()'s if / else-if chain that runs.
ShaderPhase(u) ==
    IF RLess(u.uMorphProgress, initialWaitEnd(u)) THEN "holdA"
    ELSE IF RLess(u.uMorphProgress, flipABEnd(u)) THEN "flipAB"
    ELSE IF RLess(u.uMorphProgress, waitBetweenEnd(u)) THEN "holdB"
    ELSE IF RLess(u.uMorphProgress, flipBCEnd(u)) THEN "flipBC"
    ELSE "holdC"

\* phaseProgress of a flip branch that starts at phaseStart and ends at phaseEnd.
phaseProgress(u, phaseStart, phaseEnd) ==
    RDiv(RSub(u.uMorphProgress, phaseStart), RSub(phaseEnd, phaseStart))

\* Mutant of flipWindowStart: the tile's random value is used as it is,
\* not scaled into the part of the phase a flip can still start in.
flipWindowStartUnscaled(u, noise) == noise

flipWindowStart(u, noise) ==
    RDiv(RMul(noise, Frac(u.uAllTilesFlipDuration - u.uSingleTileFlipDuration, 1)),
         Frac(u.uAllTilesFlipDuration, 1))

flipWindowEnd(u, noise) ==
    RAdd(flipWindowStart(u, noise),
         Frac(u.uSingleTileFlipDuration, u.uAllTilesFlipDuration))

\* flipProgress as a flip branch assigns it.
FlipBranchProgress(u, noise, phaseStart, phaseEnd) ==
    smoothstep(flipWindowStart(u, noise), flipWindowEnd(u, noise),
               phaseProgress(u, phaseStart, phaseEnd))

\* Mutant of HoldFlipProgress: a hold branch sees a half-done flip.
HoldFlipProgressStale == Half

\* "float flipProgress = 0.0;": the value a hold branch leaves in place.
HoldFlipProgress == Zero

\* Mutant of InvertAmount: the presence masks do not gate the inversion.
InvertAmountIgnoresPresence(u, noise, flipProgress, hasText) ==
    RMul(step(u.uInvertThreshold, noise), flipProgress)

\* invert = step(uInvertThreshold, noise) * flipProgress * hasText
InvertAmount(u, noise, flipProgress, hasText) ==
    RMul(RMul(step(u.uInvertThreshold, noise), flipProgress), hasText)

\* The branch's assignments: source and target text, flipProgress, tex1,
\* tex2, hasTextSource and hasTextTarget (unassigned in a hold branch).
ShaderBranch(u, s, garbage) ==
    LET ph == ShaderPhase(u)
    IN  CASE ph = "holdA" ->
               [phase |-> ph, source |-> "A", target |-> "A",
                flipProgress |-> HoldFlipProgress,
                tex1 |-> s.texA, tex2 |-> s.texA,
                hasTextSource |-> PresenceSample(s.presenceA),
                hasTextTarget |-> garbage]
          [] ph = "flipAB" ->
               [phase |-> ph, source |-> "A", target |-> "B",
                flipProgress |->
                    FlipBranchProgress(u, s.noise, initialWaitEnd(u), flipABEnd(u)),
                tex1 |-> s.texA, tex2 |-> s.texB,
                hasTextSource |-> PresenceSample(s.presenceA),
                hasTextTarget |-> PresenceSample(s.presenceB)]
          [] ph = "holdB" ->
               [phase |-> ph, source |-> "B", target |-> "B",
                flipProgress |-> HoldFlipProgress,
                tex1 |-> s.texB, tex2 |-> s.texB,
                hasTextSource |-> PresenceSample(s.presenceB),
                hasTextTarget |-> garbage]
          [] ph = "flipBC" ->
               [phase |-> ph, source |-> "B", target |-> "C",
                flipProgress |->
                    FlipBranchProgress(u, s.noise, waitBetweenEnd(u), flipBCEnd(u)),
                tex1 |-> s.texB, tex2 |-> s.texC,
                hasTextSource |-> PresenceSample(s.presenceB),
                hasTextTarget |-> PresenceSample(s.presenceC)]
          [] OTHER ->
               [phase |-> "holdC", source |-> "C", target |-> "C",
                flipProgress |-> HoldFlipProgress,
                tex1 |-> s.texC, tex2 |-> s.texC,
                hasTextSource |-> PresenceSample(s.presenceC),
                hasTextTarget |-> garbage]

\* main(): what the fragment computes.  sourceColor is the source text's
\* texel, tex1 is that texel after the inversion branch, gl_FragColor the
\* output.
FragmentShader(u, s, garbage) ==
    LET b        == ShaderBranch(u, s, garbage)
        hasText  == RMax(b.hasTextSource, b.hasTextTarget)
        invert   == InvertAmount(u, s.noise, b.flipProgress, hasText)
        inverted == RLess(Half, invert)
        tex1     == IF inverted
                    THEN [rgb |-> Zero, a |-> RSub(One, b.tex1.a)]
                    ELSE b.tex1
    IN  [phase        |-> b.phase,
         source       |-> b.source,
         target       |-> b.target,
         flipProgress |-> b.flipProgress,
         invert       |-> invert,
         inverted     |-> inverted,
         sourceColor  |-> b.tex1,
         targetColor  |-> b.tex2,
         gl_FragColor |-> mix(tex1, b.tex2, b.flipProgress)]

(***************************************************************************)
(* The engine's state.                                                     *)
(***************************************************************************)
VARIABLES
    status,            \* "new", "running", "failed" (the constructor threw) or "destroyed"
    options,           \* the options object the host passes to the constructor
    canvas,            \* <<clientWidth, clientHeight>> of the canvas element
    sample,            \* what the observed fragment samples (see FragmentShader)
    config,            \* this.config
    tiles,             \* this.tiles
    useTileDimensions, \* this.useTileDimensions
    morphProgress,     \* this.morphProgress
    direction,         \* this.direction
    totalElapsedTime,  \* this.totalElapsedTime, in ms
    sinceLastFrame,    \* performance.now() - this.lastFrameTime, in ms
    animationFrame,    \* this.animationFrame (0 is null)
    resizeTimeout,     \* this.resizeTimeout (0 is null)
    frameRequests,     \* the host's pending requestAnimationFrame handles
    timeouts,          \* the host's pending setTimeout timers
    renderer,          \* this.renderer: [id, size], id an index of gpu
    material,          \* this.material: an index of gpu
    geometry,          \* this.mesh.geometry: an index of gpu
    uniforms,          \* this.uniforms
    gpu,               \* every GPU resource created so far, with its dispose() count
    rendered,          \* what the last renderer.render() call read and drew
    textCanvas,        \* <<width, height>> of the text canvas createPresenceTexture scans
    pixels,            \* its alpha channel: pixel y * width + x |-> imageData.data[index + 3]
    presenceData,      \* the bytes createPresenceTexture has written, in loop order
    pixelReads         \* the pixel coordinates <<x, y>> scanTileForText has read

vars ==
    <<status, options, canvas, sample, config, tiles, useTileDimensions,
      morphProgress, direction, totalElapsedTime, sinceLastFrame, animationFrame,
      resizeTimeout, frameRequests, timeouts, renderer, material, geometry,
      uniforms, gpu, rendered, textCanvas, pixels, presenceData, pixelReads>>

\* The variables of one createPresenceTexture call.
scanVars == <<textCanvas, pixels, presenceData, pixelReads>>

\* The host hands out handles that no pending request holds.  Handles are
\* only ever compared for equality, so the smallest free one stands for
\* the browser's ever-increasing counter.
FreshHandle(pending) == CHOOSE h \in 1..(Cardinality(pending) + 1) : h \notin pending

\* clearTimeout(handle)
clearTimeout(pending, handle) == {t \in pending : t.id # handle}

\* cancelAnimationFrame(handle)
cancelAnimationFrame(pending, handle) == pending \ {handle}

\* texture.dispose(), renderer.dispose(), material.dispose(), geometry.dispose()
Dispose(g, id) == [g EXCEPT ![id].released = @ + 1]

RECURSIVE DisposeAll(_, _)
DisposeAll(g, ids) ==
    IF ids = <<>> THEN g ELSE DisposeAll(Dispose(g, Head(ids)), Tail(ids))

Texts == <<"A", "B", "C">>

\* createAllTextures: one CanvasTexture per text canvas of the given size.
createAllTextures(width, height) ==
    [i \in 1..3 |-> [kind |-> "texture", text |-> Texts[i],
                     size |-> <<width, height>>, released |-> 0]]

\* createAllPresenceTextures: one DataTexture of this.tiles.x by this.tiles.y
\* per text canvas.
createAllPresenceTextures(grid, width, height) ==
    [i \in 1..3 |-> [kind |-> "presence", text |-> Texts[i],
                     size |-> grid, released |-> 0]]

BoundTextures(u) ==
    <<u.uTexA, u.uTexB, u.uTexC, u.uPresenceA, u.uPresenceB, u.uPresenceC>>

\* Mutant of updateTextures: the old generation is disposed and a new one
\* created, but the uniforms are left pointing at the old one.
updateTexturesKeepsBindings(g, u, grid, width, height) ==
    [gpu      |-> DisposeAll(g, BoundTextures(u))
                     \o createAllTextures(width, height)
                     \o createAllPresenceTextures(grid, width, height),
     uniforms |-> u]

\* Mutant of updateTextures: the uniforms are rebuilt for the new
\* generation, which puts the progress uniform back to 0.
updateTexturesRebuildsUniforms(g, u, grid, width, height) ==
    LET disposed == DisposeAll(g, BoundTextures(u))
        n        == Len(disposed)
    IN  [gpu      |-> disposed \o createAllTextures(width, height)
                              \o createAllPresenceTextures(grid, width, height),
         uniforms |-> [u EXCEPT !.uTexA = n + 1, !.uTexB = n + 2, !.uTexC = n + 3,
                                !.uPresenceA = n + 4, !.uPresenceB = n + 5,
                                !.uPresenceC = n + 6, !.uMorphProgress = Zero]]

\* updateTextures(width, height): the new resource table and uniforms.
updateTextures(g, u, grid, width, height) ==
    LET disposed == DisposeAll(g, BoundTextures(u))
        n        == Len(disposed)
    IN  [gpu      |-> disposed \o createAllTextures(width, height)
                              \o createAllPresenceTextures(grid, width, height),
         uniforms |-> [u EXCEPT !.uTexA = n + 1, !.uTexB = n + 2, !.uTexC = n + 3,
                                !.uPresenceA = n + 4, !.uPresenceB = n + 5,
                                !.uPresenceC = n + 6]]

\* Values an uninitialised GLSL float may hold: a finite number, an
\* infinity or a NaN.
Garbage == {One, Inf, NaN}

\* renderer.render(scene, camera): the progress, tile grid and textures the
\* draw call reads from the uniforms, whether each texture had been
\* disposed by then, and the observed fragment's output.
Render(u, g, s, garbage) ==
    [uMorphProgress |-> u.uMorphProgress,
     uTiles         |-> u.uTiles,
     textures       |-> BoundTextures(u),
     released       |-> [i \in 1..6 |-> g[BoundTextures(u)[i]].released],
     fragment       |-> FragmentShader(u, s, garbage)]

\* Mutants of AdvanceElapsed: no clamp at T; the direction ignored; a
\* timeline that restarts from 0 once it passes T.
AdvanceElapsedNoUpperClamp(elapsed, deltaTime, dir, T) ==
    Max(0, elapsed + deltaTime * dir)

AdvanceElapsedIgnoresDirection(elapsed, deltaTime, dir, T) ==
    Max(0, Min(T, elapsed + deltaTime))

AdvanceElapsedRestarts(elapsed, deltaTime, dir, T) ==
    IF elapsed + deltaTime * dir > T THEN 0 ELSE Max(0, elapsed + deltaTime * dir)

\* Mutant of AdvanceElapsed: the timeline wraps round instead of stopping
\* at its ends, as a looping animation would.
AdvanceElapsedWraps(elapsed, deltaTime, dir, T) ==
    (elapsed + deltaTime * dir) % T

\* Lines 532-533: advance by deltaTime * direction, then clamp to [0, T].
AdvanceElapsed(elapsed, deltaTime, dir, T) ==
    Max(0, Min(T, elapsed + deltaTime * dir))

\* Settled resizes so far.
Regenerations ==
    Cardinality({i \in DOMAIN gpu : gpu[i].kind = "texture" /\ gpu[i].text = "A"}) - 1

\* Math.floor and Math.ceil of a finite rational.
Floor(a) == a[1] \div a[2]

Ceil(a) == (a[1] + a[2] - 1) \div a[2]

\* pixels[(y * canvasWidth + x) * 4 + 3]; an index past the end of a typed
\* array reads as undefined, and "undefined > 0" is false.
AlphaAt(px, canvasWidth, x, y) ==
    IF (y * canvasWidth + x) \in DOMAIN px THEN px[y * canvasWidth + x] ELSE 0

\* The rectangle scanTileForText loops over: startX, startY, endX, endY.
ScanRect(canvasWidth, canvasHeight, tileX, tileY, tileWidth, tileHeight) ==
    LET startX == Floor(RMul(Frac(tileX, 1), tileWidth))
        startY == Floor(RMul(Frac(tileY, 1), tileHeight))
    IN  [startX |-> startX,
         startY |-> startY,
         endX   |-> Min(startX + Ceil(tileWidth), canvasWidth),
         endY   |-> Min(startY + Ceil(tileHeight), canvasHeight)]

\* The pixels the two loops visit, and whether <<x1, y1>> comes before
\* <<x2, y2>> in their order (rows outside, columns inside).
LoopPixels(rect) ==
    {<<x, y>> : x \in rect.startX .. (rect.endX - 1),
                y \in rect.startY .. (rect.endY - 1)}

VisitedBefore(p, q) == p[2] < q[2] \/ (p[2] = q[2] /\ p[1] < q[1])

\* scanTileForText: the value returned, and the pixels read on the way; the
\* loops stop at the first pixel with alpha > 0.
scanTileForText(px, canvasWidth, canvasHeight, tileX, tileY, tileWidth, tileHeight) ==
    LET rect == ScanRect(canvasWidth, canvasHeight, tileX, tileY, tileWidth, tileHeight)
        hits == {p \in LoopPixels(rect) : AlphaAt(px, canvasWidth, p[1], p[2]) > 0}
    IN  [hasText |-> hits # {},
         reads   |-> {p \in LoopPixels(rect) :
                         \A q \in hits : ~VisitedBefore(q, p)}]

(***************************************************************************)
(* Inputs.                                                                 *)
(***************************************************************************)
\* Viewport sizes the host resizes to: the initial one, and one that the
\* default tile dimension does not divide and that is less than a tile high.
Sizes == {<<16, 16>>, <<20, 4>>}

InitialCanvas == <<16, 16>>

\* A texel of a text canvas: transparent, or ink at full alpha.
Transparent == [rgb |-> Zero, a |-> Zero]

Ink == [rgb |-> One, a |-> One]

\* What a text's two textures hold at one fragment: the presence byte of
\* its tile (0 or 255) and its texel.  scanTileForText marks a tile 255 as
\* soon as one of its pixels has alpha > 0, so ink implies presence.
TextSamples ==
    { [presence |-> 0, texel |-> Transparent],
      [presence |-> 255, texel |-> Transparent],
      [presence |-> 255, texel |-> Ink] }

\* Values of random(tileUV), which lies in [0, 1).
Noises == {Zero, Half, Frac(99, 100)}

MakeSample(noise, a, b, c) ==
    [noise |-> noise,
     texA |-> a.texel, texB |-> b.texel, texC |-> c.texel,
     presenceA |-> a.presence, presenceB |-> b.presence, presenceC |-> c.presence]

AllSamples ==
    {MakeSample(n, a, b, c) : n \in Noises, a \in TextSamples,
                              b \in TextSamples, c \in TextSamples}

\* Values of invertThreshold: every tile inverts, or only those with noise >= 1/2.
Thresholds == {Zero, Half}

(***************************************************************************)
(* Operations.                                                             *)
(***************************************************************************)
BlankEngine ==
    /\ status = "new"
    /\ canvas = InitialCanvas
    /\ config = Undefined
    /\ tiles = Undefined
    /\ useTileDimensions = FALSE
    /\ morphProgress = Zero
    /\ direction = 0
    /\ totalElapsedTime = 0
    /\ sinceLastFrame = 0
    /\ animationFrame = 0
    /\ resizeTimeout = 0
    /\ frameRequests = {}
    /\ timeouts = {}
    /\ renderer = Undefined
    /\ material = 0
    /\ geometry = 0
    /\ uniforms = Undefined
    /\ gpu = <<>>
    /\ rendered = Undefined
    /\ textCanvas = Undefined
    /\ pixels = Undefined
    /\ presenceData = <<>>
    /\ pixelReads = {}

\* createUniforms, with the textures at gpu indices first .. first + 5.
\* uTime is left out: animate adds 0.016 to it every frame and nothing,
\* the shader's main() included, ever reads it.
createUniforms(cfg, grid, first, width, height) ==
    [uMorphProgress            |-> Zero,
     uResolution               |-> <<width, height>>,
     uTexA                     |-> first,
     uTexB                     |-> first + 1,
     uTexC                     |-> first + 2,
     uPresenceA                |-> first + 3,
     uPresenceB                |-> first + 4,
     uPresenceC                |-> first + 5,
     uTiles                    |-> grid,
     uInitialWaitDuration      |-> cfg.initialWaitDuration,
     uAllTilesFlipDuration     |-> cfg.allTilesFlipDuration,
     uSingleTileFlipDuration   |-> cfg.singleTileFlipDuration,
     uWaitBetweenFlipsDuration |-> cfg.waitBetweenFlipsDuration,
     uFinalWaitDuration        |-> cfg.finalWaitDuration,
     uInvertThreshold          |-> cfg.invertThreshold]

Resource(kind, size) == [kind |-> kind, text |-> "", size |-> size, released |-> 0]

\* Mutant of ConstructionFailed: the configuration is validated after the
\* renderer was created and the first frame requested.
ConstructionFailedLate ==
    /\ status' = "failed"
    /\ renderer' = [id |-> 1, size |-> canvas]
    /\ gpu' = <<Resource("renderer", canvas)>>
    /\ frameRequests' = frameRequests \cup {FreshHandle(frameRequests)}
    /\ UNCHANGED <<useTileDimensions, tiles, material, geometry, uniforms,
                   sinceLastFrame, animationFrame, rendered>>

\* validateConfig throws out of the constructor: it is called right after
\* the merge, before the grid, the scene, the renderer, the resources and
\* the first animate(), so none of them exists.
ConstructionFailed ==
    /\ status' = "failed"
    /\ UNCHANGED <<useTileDimensions, tiles, renderer, gpu, material,
                   geometry, uniforms, sinceLastFrame, frameRequests,
                   animationFrame, rendered>>

\* new GlitchText(canvas, options): the constructor, up to and including
\* its call of animate(), which requests the first frame and draws once
\* (direction is 0, so it leaves the timeline alone).
Construct ==
    /\ status = "new"
    /\ LET cfg    == MergeConfig(options)
           width  == canvas[1]
           height == canvas[2]
       IN  /\ config' = cfg
           /\ IF validateConfig(cfg)
              THEN LET grid == calculateTiles(cfg, width, height)
                       u    == createUniforms(cfg, grid, 2, width, height)
                       h    == FreshHandle(frameRequests)
                   IN  /\ status' = "running"
                       /\ useTileDimensions' = (cfg.tileDimensions # Undefined)
                       /\ tiles' = grid
                       /\ renderer' = [id |-> 1, size |-> <<width, height>>]
                       /\ gpu' = <<Resource("renderer", <<width, height>>)>>
                                 \o createAllTextures(width, height)
                                 \o createAllPresenceTextures(grid, width, height)
                                 \o <<Resource("material", <<>>),
                                      Resource("geometry", <<2, 2>>)>>
                       /\ material' = 8
                       /\ geometry' = 9
                       /\ uniforms' = u
                       /\ sinceLastFrame' = 0
                       /\ frameRequests' = frameRequests \cup {h}
                       /\ animationFrame' = h
                       /\ \E g \in Garbage : rendered' = Render(u, gpu', sample, g)
              ELSE ConstructionFailed
    /\ UNCHANGED scanVars
    /\ UNCHANGED <<options, canvas, sample, morphProgress, direction,
                   totalElapsedTime, resizeTimeout, timeouts>>

\* Wall-clock time passes: the clock moves away from lastFrameTime and
\* every pending timer comes closer to being due.  Only a pending callback
\* can observe the clock.
AdvanceTime ==
    /\ frameRequests # {} \/ timeouts # {}
    /\ sinceLastFrame + TickMs <= MaxTicks * TickMs
    /\ sinceLastFrame' = sinceLastFrame + TickMs
    /\ timeouts' = {[t EXCEPT !.remaining = Max(0, @ - TickMs)] : t \in timeouts}
    /\ UNCHANGED scanVars
    /\ UNCHANGED <<status, options, canvas, sample, config, tiles, useTileDimensions,
                   morphProgress, direction, totalElapsedTime, animationFrame,
                   resizeTimeout, frameRequests, renderer, material, geometry,
                   uniforms, gpu, rendered>>

\* animate, run by the host for the pending frame request h.
animate(h) ==
    /\ h \in frameRequests
    /\ LET next      == FreshHandle(frameRequests \ {h})
           deltaTime == sinceLastFrame
           elapsed   == IF direction # 0
                        THEN AdvanceElapsed(totalElapsedTime, deltaTime, direction,
                                            totalDuration(config))
                        ELSE totalElapsedTime
           progress  == IF direction # 0
                        THEN Frac(elapsed, totalDuration(config))
                        ELSE morphProgress
           u         == IF direction # 0
                        THEN [uniforms EXCEPT !.uMorphProgress = progress]
                        ELSE uniforms
       IN  /\ frameRequests' = (frameRequests \ {h}) \cup {next}
           /\ animationFrame' = next
           /\ sinceLastFrame' = 0
           /\ totalElapsedTime' = elapsed
           /\ morphProgress' = progress
           /\ uniforms' = u
           /\ \E g \in Garbage : rendered' = Render(u, gpu, sample, g)
    /\ UNCHANGED scanVars
    /\ UNCHANGED <<status, options, canvas, sample, config, tiles, useTileDimensions,
                   direction, resizeTimeout, timeouts, renderer, material, geometry,
                   gpu>>

\* Mutant of setHover: leaving the element stops the animation.
setHoverStopsOnLeave(hover) ==
    /\ status = "running"
    /\ LET newDirection == IF hover THEN 1 ELSE 0
       IN  direction' = IF newDirection # direction THEN newDirection ELSE direction
    /\ UNCHANGED scanVars
    /\ UNCHANGED <<status, options, canvas, sample, config, tiles, useTileDimensions,
                   morphProgress, totalElapsedTime, sinceLastFrame, animationFrame,
                   resizeTimeout, frameRequests, timeouts, renderer, material,
                   geometry, uniforms, gpu, rendered>>

\* Mutant of setHover: a change of direction also restarts the timeline.
setHoverRestarts(hover) ==
    /\ status = "running"
    /\ LET newDirection == IF hover THEN 1 ELSE -1
       IN  /\ direction' = newDirection
           /\ totalElapsedTime' = IF newDirection # direction THEN 0 ELSE totalElapsedTime
    /\ UNCHANGED scanVars
    /\ UNCHANGED <<status, options, canvas, sample, config, tiles, useTileDimensions,
                   morphProgress, sinceLastFrame, animationFrame,
                   resizeTimeout, frameRequests, timeouts, renderer, material,
                   geometry, uniforms, gpu, rendered>>

\* setHover(hover).  The host calls the public methods of a constructed
\* engine only, and calls nothing after destroy().
setHover(hover) ==
    /\ status = "running"
    /\ LET newDirection == IF hover THEN 1 ELSE -1
       IN  direction' = IF newDirection # direction THEN newDirection ELSE direction
    /\ UNCHANGED scanVars
    /\ UNCHANGED <<status, options, canvas, sample, config, tiles, useTileDimensions,
                   morphProgress, totalElapsedTime, sinceLastFrame, animationFrame,
                   resizeTimeout, frameRequests, timeouts, renderer, material,
                   geometry, uniforms, gpu, rendered>>

\* Mutant of ResizeCleared: resize does not cancel the pending timer.
ResizeClearedNothing == timeouts

\* The pending timers after resize's "if (this.resizeTimeout) clearTimeout(...)".
ResizeCleared == 
    IF resizeTimeout # 0 THEN clearTimeout(timeouts, resizeTimeout) ELSE timeouts

\* resize(width, height)
resize(width, height) ==
    /\ status = "running"
    /\ Regenerations < MaxRegenerations
    /\ renderer' = [renderer EXCEPT !.size = <<width, height>>]
    /\ uniforms' = [uniforms EXCEPT !.uResolution = <<width, height>>]
    /\ LET kept == ResizeCleared
           h    == FreshHandle({t.id : t \in kept})
       IN  /\ timeouts' = kept \cup {[id |-> h, width |-> width, height |-> height,
                                      remaining |-> config.resizeDebounceMs]}
           /\ resizeTimeout' = h
    /\ UNCHANGED scanVars
    /\ UNCHANGED <<status, options, canvas, sample, config, tiles, useTileDimensions,
                   morphProgress, direction, totalElapsedTime, sinceLastFrame,
                   animationFrame, frameRequests, material, geometry, gpu, rendered>>

\* The callback resize hands to setTimeout, run by the host once timer t is due.
resizeSettle(t) ==
    /\ t \in timeouts
    /\ t.remaining = 0
    /\ timeouts' = timeouts \ {t}
    /\ LET grid == IF useTileDimensions
                   THEN calculateTiles(config, t.width, t.height)
                   ELSE tiles
           u    == IF useTileDimensions
                   THEN [uniforms EXCEPT !.uTiles = grid]
                   ELSE uniforms
           r    == updateTextures(gpu, u, grid, t.width, t.height)
       IN  /\ tiles' = grid
           /\ gpu' = r.gpu
           /\ uniforms' = r.uniforms
    /\ UNCHANGED scanVars
    /\ UNCHANGED <<status, options, canvas, sample, config, useTileDimensions,
                   morphProgress, direction, totalElapsedTime, sinceLastFrame,
                   animationFrame, resizeTimeout, frameRequests, renderer, material,
                   geometry, rendered>>

\* Mutant of DestroyTimeouts: destroy leaves the debounce timer armed.
DestroyTimeoutsKept == timeouts

\* Mutant of DestroyDisposals: destroy forgets the mesh's geometry.
DestroyDisposalsNoGeometry == BoundTextures(uniforms) \o <<renderer.id, material>>

\* The frame requests left after destroy's cancelAnimationFrame.
DestroyFrames ==
    IF animationFrame # 0 THEN cancelAnimationFrame(frameRequests, animationFrame)
    ELSE frameRequests

\* The timers left after destroy's clearTimeout.
DestroyTimeouts ==
    IF resizeTimeout # 0 THEN clearTimeout(timeouts, resizeTimeout) ELSE timeouts

\* What destroy disposes, in order.
DestroyDisposals == BoundTextures(uniforms) \o <<renderer.id, material, geometry>>

\* destroy()
destroy ==
    /\ status = "running"
    /\ status' = "destroyed"
    /\ frameRequests' = DestroyFrames
    /\ timeouts' = DestroyTimeouts
    /\ gpu' = DisposeAll(gpu, DestroyDisposals)
    /\ UNCHANGED scanVars
    /\ UNCHANGED <<options, canvas, sample, config, tiles, useTileDimensions,
                   morphProgress, direction, totalElapsedTime, sinceLastFrame,
                   animationFrame, resizeTimeout, renderer, material, geometry,
                   uniforms, rendered>>

(***************************************************************************)
(* Specifications.                                                         *)
(***************************************************************************)
\* An options object validateConfig rejects.
BadThresholdOptions == [NoOptions EXCEPT !.invertThreshold = Given(Frac(2, 1))]

SpecSample == MakeSample(Half, [presence |-> 255, texel |-> Ink],
                         [presence |-> 0, texel |-> Transparent],
                         [presence |-> 255, texel |-> Ink])

\* The whole engine, with the default configuration.
Init ==
    /\ BlankEngine
    /\ options \in {NoOptions, BadThresholdOptions}
    /\ sample = SpecSample

Next ==
    \/ Construct
    \/ AdvanceTime
    \/ \E h \in frameRequests : animate(h)
    \/ \E hover \in BOOLEAN : setHover(hover)
    \/ \E size \in Sizes : resize(size[1], size[2])
    \/ \E t \in timeouts : resizeSettle(t)
    \/ destroy

Spec == Init /\ [][Next]_vars

\* The timeline and the shader, over every sample and invert threshold.
ShaderInit ==
    /\ BlankEngine
    /\ options \in {[NoOptions EXCEPT !.invertThreshold = Given(th)] : th \in Thresholds}
    /\ sample \in AllSamples

ShaderNext ==
    \/ Construct
    \/ AdvanceTime
    \/ \E h \in frameRequests : animate(h)
    \/ \E hover \in BOOLEAN : setHover(hover)

ShaderSpec == ShaderInit /\ [][ShaderNext]_vars

\* Options objects for the constructor: singleTileFlipDuration below, at
\* and above allTilesFlipDuration; invertThreshold below, at the ends of
\* and above [0, 1]; tiles absent or given; tileDimensions absent, given
\* as undefined or given.
ConfigOptions ==
    {[NoOptions EXCEPT !.singleTileFlipDuration = single,
                       !.invertThreshold = Given(th),
                       !.tiles = tl,
                       !.tileDimensions = td] :
        single \in {NotGiven, Given(DefaultAllTilesFlipDuration),
                    Given(DefaultAllTilesFlipDuration + DefaultSingleTileFlipDuration)},
        th \in {Frac(-1, 2), Zero, One, Frac(3, 2)},
        tl \in {NotGiven, Given(<<2, 2>>)},
        td \in {NotGiven, Given(Undefined), Given(<<4, 8>>)}}

\* Construction over every such options object, then frames and resizes.
ConfigInit ==
    /\ BlankEngine
    /\ options \in ConfigOptions
    /\ sample = SpecSample

ConfigNext ==
    \/ Construct
    \/ AdvanceTime
    \/ \E h \in frameRequests : animate(h)
    \/ \E size \in Sizes : resize(size[1], size[2])
    \/ \E t \in timeouts : resizeSettle(t)

ConfigSpec == ConfigInit /\ [][ConfigNext]_vars


\* Flip durations for the flip-window claims: singleTileFlipDuration of one
\* millisecond, the default and the default allTilesFlipDuration, against
\* an allTilesFlipDuration of the default and of twice the default
\* singleTileFlipDuration; the tile's random value ranges over Noises.
WindowOptions ==
    {[NoOptions EXCEPT !.singleTileFlipDuration = single,
                       !.allTilesFlipDuration = all] :
        single \in {Given(1), NotGiven, Given(DefaultAllTilesFlipDuration)},
        all \in {NotGiven, Given(2 * DefaultSingleTileFlipDuration)}}

WindowInit ==
    /\ BlankEngine
    /\ options \in WindowOptions
    /\ sample \in {[SpecSample EXCEPT !.noise = n] : n \in Noises}

WindowNext ==
    \/ Construct
    \/ AdvanceTime
    \/ \E h \in frameRequests : animate(h)
    \/ \E hover \in BOOLEAN : setHover(hover)

WindowSpec == WindowInit /\ [][WindowNext]_vars

\* Text canvases of up to MaxTextCanvasWidth by MaxTextCanvasHeight pixels
\* and grids of up to MaxTiles tiles across.
TextCanvasSizes == (1..MaxTextCanvasWidth) \X (1..MaxTextCanvasHeight)

Grids == (1..MaxTiles) \X (1..MaxTextCanvasHeight)

\* What fillText can leave on a canvas of n pixels: nothing, one faint
\* pixel anywhere, or ink everywhere.
Bitmaps(n) ==
    {[i \in 0..(n - 1) |-> 0], [i \in 0..(n - 1) |-> 255]}
    \cup {[i \in 0..(n - 1) |-> IF i = k THEN 1 ELSE 0] : k \in 0..(n - 1)}

\* ctx.getImageData(0, 0, width, height): the rasterised text arrives.
getImageData ==
    /\ textCanvas # Undefined
    /\ pixels = Undefined
    /\ pixels' \in Bitmaps(textCanvas[1] * textCanvas[2])
    /\ UNCHANGED <<status, options, canvas, sample, config, tiles, useTileDimensions,
                   morphProgress, direction, totalElapsedTime, sinceLastFrame,
                   animationFrame, resizeTimeout, frameRequests, timeouts, renderer,
                   material, geometry, uniforms, gpu, rendered, textCanvas,
                   presenceData, pixelReads>>

\* One pass of createPresenceTexture's inner loop body: the next tile in
\* loop order is scanned and its byte written.
scanNextTile ==
    /\ pixels # Undefined
    /\ Len(presenceData) < tiles[1] * tiles[2]
    /\ LET tileX == Len(presenceData) % tiles[1]
           tileY == Len(presenceData) \div tiles[1]
           r     == scanTileForText(pixels, textCanvas[1], textCanvas[2], tileX, tileY,
                                    Frac(textCanvas[1], tiles[1]),
                                    Frac(textCanvas[2], tiles[2]))
       IN  /\ presenceData' = Append(presenceData, IF r.hasText THEN 255 ELSE 0)
           /\ pixelReads' = pixelReads \cup r.reads
    /\ UNCHANGED <<status, options, canvas, sample, config, tiles, useTileDimensions,
                   morphProgress, direction, totalElapsedTime, sinceLastFrame,
                   animationFrame, resizeTimeout, frameRequests, timeouts, renderer,
                   material, geometry, uniforms, gpu, rendered, textCanvas, pixels>>

\* One createPresenceTexture call, for every canvas size and grid.
ScanInit ==
    /\ status = "running"
    /\ options = NoOptions
    /\ canvas = InitialCanvas
    /\ sample = SpecSample
    /\ config = Undefined
    /\ tiles \in Grids
    /\ useTileDimensions = FALSE
    /\ morphProgress = Zero
    /\ direction = 0
    /\ totalElapsedTime = 0
    /\ sinceLastFrame = 0
    /\ animationFrame = 0
    /\ resizeTimeout = 0
    /\ frameRequests = {}
    /\ timeouts = {}
    /\ renderer = Undefined
    /\ material = 0
    /\ geometry = 0
    /\ uniforms = Undefined
    /\ gpu = <<>>
    /\ rendered = Undefined
    /\ textCanvas \in TextCanvasSizes
    /\ pixels = Undefined
    /\ presenceData = <<>>
    /\ pixelReads = {}

ScanNext == getImageData \/ scanNextTile

ScanSpec == ScanInit /\ [][ScanNext]_vars

\* The engine with a live frame loop: no destroy(), the clock keeps
\* moving (AdvanceTime) and the browser keeps running the requested frame
\* callback, so frames with a positive delta keep coming.
LiveInit ==
    /\ BlankEngine
    /\ options = NoOptions
    /\ sample = SpecSample

LiveNext ==
    \/ Construct
    \/ AdvanceTime
    \/ \E h \in frameRequests : animate(h)
    \/ \E hover \in BOOLEAN : setHover(hover)

\* A frame callback that runs with a positive delta: frame callbacks are
\* the only steps that take lastFrameTime from behind the clock up to it.
PositiveFrame ==
    /\ frameRequests # {}
    /\ sinceLastFrame > 0
    /\ sinceLastFrame' = 0

LiveSpec ==
    /\ LiveInit
    /\ [][LiveNext]_vars
    /\ WF_vars(AdvanceTime)
    /\ WF_sinceLastFrame(PositiveFrame)

(***************************************************************************)
(* Claims.                                                                 *)
(***************************************************************************)
Constructed == status \in {"running", "destroyed"}

\* T = initialWait + 2 * allTilesFlip + betweenWait + finalWait
ClaimedT ==
    config.initialWaitDuration + 2 * config.allTilesFlipDuration
    + config.waitBetweenFlipsDuration + config.finalWaitDuration

\* C1: in every reachable state of a constructed engine, whatever frames,
\* setHover calls and resizes led to it, 0 <= elapsedTime <= T,
\* progress = elapsedTime / T lies in [0, 1], and the progress uniform, as
\* it stands and as the last draw read it, equals that progress.
C1_ProgressIsClampedRatio ==
    Constructed =>
        /\ 0 <= totalElapsedTime
        /\ totalElapsedTime <= ClaimedT
        /\ morphProgress = Frac(totalElapsedTime, ClaimedT)
        /\ RLeq(Zero, morphProgress)
        /\ RLeq(morphProgress, One)
        /\ uniforms.uMorphProgress = morphProgress
        /\ rendered.uMorphProgress = morphProgress

\* C1 witness: the timeline is strictly inside (0, T), running backwards,
\* after a resize has settled.
C1_Witness ==
    /\ status = "running"
    /\ direction = -1
    /\ 0 < totalElapsedTime
    /\ totalElapsedTime < ClaimedT
    /\ Regenerations >= 1

\* C3: setHover(true) sets direction to +1 and setHover(false) to -1; a
\* call for the direction in effect changes nothing; no call changes the
\* elapsed time, the progress, the uniforms (progress, tile grid, texture
\* bindings), the tile grid or anything else but direction.
C3_SetHoverOnlySetsDirection ==
    [][\A hover \in BOOLEAN :
          setHover(hover) =>
              /\ direction' = (IF hover THEN 1 ELSE -1)
              /\ (direction = (IF hover THEN 1 ELSE -1) => UNCHANGED vars)
              /\ UNCHANGED <<totalElapsedTime, morphProgress, uniforms, tiles,
                             gpu, rendered, sinceLastFrame, frameRequests,
                             timeouts, status>>]_vars

\* C3 witness: the hover was reversed in mid-animation.
C3_Witness ==
    /\ status = "running"
    /\ direction = -1
    /\ totalElapsedTime = DefaultInitialWaitDuration + TickMs
    /\ sinceLastFrame = 0

\* C4: over any step taken while direction = +1 the elapsed time and the
\* progress do not decrease, over any step taken while direction = -1 they
\* do not increase, and the progress stays in [0, 1].
C4_MonotoneInDirection ==
    [][Constructed =>
          /\ (direction = 1 =>
                /\ totalElapsedTime' >= totalElapsedTime
                /\ RLeq(morphProgress, morphProgress'))
          /\ (direction = -1 =>
                /\ totalElapsedTime' <= totalElapsedTime
                /\ RLeq(morphProgress', morphProgress))
          /\ RLeq(Zero, morphProgress')
          /\ RLeq(morphProgress', One)]_vars

\* C4 witness: a frame has moved the timeline back from T.
C4_Witness ==
    /\ status = "running"
    /\ direction = -1
    /\ totalElapsedTime = ClaimedT - TickMs
    /\ rendered.uMorphProgress = Frac(ClaimedT - TickMs, ClaimedT)

\* C5: while direction stays +1 and progress is 1, every step leaves
\* progress at 1 and the elapsed time at T; while direction stays -1 and
\* progress is 0, every step leaves both at 0.
C5_IdempotentAtBounds ==
    [][Constructed =>
          /\ (direction = 1 /\ direction' = 1 /\ morphProgress = One =>
                morphProgress' = One /\ totalElapsedTime' = ClaimedT)
          /\ (direction = -1 /\ direction' = -1 /\ morphProgress = Zero =>
                morphProgress' = Zero /\ totalElapsedTime' = 0)]_vars

\* C5 witness: a frame ran with a positive delta while the timeline stood
\* at T with direction +1 (the state before it had the clock advanced).
C5_Witness ==
    /\ status = "running"
    /\ direction = 1
    /\ morphProgress = One
    /\ totalElapsedTime = ClaimedT
    /\ sinceLastFrame = MaxTicks * TickMs

\* The phase that holds at elapsed time e, from the cumulative durations.
ExpectedPhase(e) ==
    IF e < config.initialWaitDuration THEN "holdA"
    ELSE IF e < config.initialWaitDuration + config.allTilesFlipDuration THEN "flipAB"
    ELSE IF e < config.initialWaitDuration + config.allTilesFlipDuration
                + config.waitBetweenFlipsDuration THEN "holdB"
    ELSE IF e < config.initialWaitDuration + 2 * config.allTilesFlipDuration
                + config.waitBetweenFlipsDuration THEN "flipBC"
    ELSE "holdC"

HoldPhases == {"holdA", "holdB", "holdC"}

FlipPhases == {"flipAB", "flipBC"}

SourceText(ph) ==
    CASE ph = "holdA" -> "A" [] ph = "flipAB" -> "A" [] ph = "holdB" -> "B"
      [] ph = "flipBC" -> "B" [] OTHER -> "C"

TargetText(ph) ==
    CASE ph = "holdA" -> "A" [] ph = "flipAB" -> "B" [] ph = "holdB" -> "B"
      [] ph = "flipBC" -> "C" [] OTHER -> "C"

TexelOf(text) ==
    CASE text = "A" -> sample.texA [] text = "B" -> sample.texB [] OTHER -> sample.texC

PresenceOf(text) ==
    CASE text = "A" -> sample.presenceA [] text = "B" -> sample.presenceB
      [] OTHER -> sample.presenceC

\* C2: the branch a draw takes is the phase whose half-open interval of
\* cumulative durations holds the elapsed time (the last one closed at
\* progress 1), with that phase's source and target text; with durations
\* 0.2, 0.5, 0.3, 0.2 s the total is 1.7 s and at elapsedTime = 0.2 s
\* progress is exactly 0.2 / 1.7 and the draw takes the flip A->B branch
\* at phase-local progress 0.
C2_PhaseFromProgress ==
    status = "running" =>
        /\ rendered.fragment.phase = ExpectedPhase(totalElapsedTime)
        /\ rendered.fragment.source = SourceText(ExpectedPhase(totalElapsedTime))
        /\ rendered.fragment.target = TargetText(ExpectedPhase(totalElapsedTime))
        /\ (rendered.uMorphProgress = One => rendered.fragment.phase = "holdC")
        /\ (/\ config.initialWaitDuration = 200
            /\ config.allTilesFlipDuration = 500
            /\ config.waitBetweenFlipsDuration = 300
            /\ config.finalWaitDuration = 200
            /\ totalElapsedTime = 200
            => /\ totalDuration(config) = 1700
               /\ rendered.uMorphProgress = Frac(200, 1700)
               /\ rendered.uMorphProgress = initialWaitEnd(uniforms)
               /\ rendered.fragment.phase = "flipAB"
               /\ phaseProgress(uniforms, initialWaitEnd(uniforms),
                                flipABEnd(uniforms)) = Zero)

\* C2 witness: a draw at elapsedTime = 0.2 s in the flip A->B branch.
C2_Witness ==
    /\ status = "running"
    /\ totalElapsedTime = 200
    /\ totalDuration(config) = 1700
    /\ rendered.fragment.phase = "flipAB"

\* C6: at most one debounce timer is pending and it carries the size of
\* the last resize call; a resize call regenerates nothing and leaves
\* exactly its own timer armed for the full debounce interval; textures
\* are regenerated only by a timer that has run down, which is then the
\* only one pending, and the new textures have its size, the size of the
\* last call.
C6_ResizeCoalesces ==
    [][status = "running" =>
          /\ Cardinality(timeouts') <= 1
          /\ \A t \in timeouts' : <<t.width, t.height>> = uniforms'.uResolution
          /\ \A size \in Sizes :
                resize(size[1], size[2]) =>
                    /\ gpu' = gpu
                    /\ BoundTextures(uniforms') = BoundTextures(uniforms)
                    /\ timeouts' = {[id |-> resizeTimeout', width |-> size[1],
                                     height |-> size[2],
                                     remaining |-> config.resizeDebounceMs]}
          /\ (gpu' # gpu /\ status' = "running" =>
                /\ timeouts' = {}
                /\ Len(gpu') = Len(gpu) + 6
                /\ \E t \in timeouts :
                      /\ t.remaining = 0
                      /\ <<t.width, t.height>> = uniforms.uResolution
                      /\ \A i \in 1..3 :
                            gpu'[BoundTextures(uniforms')[i]].size
                                = <<t.width, t.height>>)]_vars

\* C6 witness: a regeneration has run, at the size of the last resize call,
\* which differs from the size the engine was built with.
C6_Witness ==
    /\ status = "running"
    /\ Regenerations = 1
    /\ timeouts = {}
    /\ uniforms.uResolution # InitialCanvas
    /\ gpu[uniforms.uTexA].size = uniforms.uResolution

\* C7: once destroy() has returned no frame request and no debounce timer
\* is pending, so no callback scheduled before it can run.
C7_DestroyCancelsCallbacks ==
    status = "destroyed" => frameRequests = {} /\ timeouts = {}

\* C7 witness: destroy() was called while a debounce timer was pending
\* (resize was called and no regeneration ever ran).
C7_Witness ==
    /\ status = "destroyed"
    /\ resizeTimeout # 0
    /\ Regenerations = 0

CountOf(kind, text) ==
    Cardinality({i \in DOMAIN gpu : gpu[i].kind = kind /\ gpu[i].text = text})

\* C8: the resources created are one renderer, one material, one geometry
\* and, per generation, a texture and a presence map for each text; none
\* is ever released twice, a superseded texture has been released once,
\* and after destroy() every resource has been released exactly once.
C8_EveryResourceReleasedOnce ==
    Constructed =>
        /\ CountOf("renderer", "") = 1
        /\ CountOf("material", "") = 1
        /\ CountOf("geometry", "") = 1
        /\ \A i \in 1..3 :
              /\ CountOf("texture", Texts[i]) = Regenerations + 1
              /\ CountOf("presence", Texts[i]) = Regenerations + 1
        /\ Len(gpu) = 3 + 6 * (Regenerations + 1)
        /\ \A i \in DOMAIN gpu : gpu[i].released <= 1
        /\ (status = "running" =>
              \A i \in DOMAIN gpu :
                  gpu[i].released = 0 <=>
                      i \in {renderer.id, material, geometry}
                            \cup {BoundTextures(uniforms)[k] : k \in 1..6})
        /\ (status = "destroyed" => \A i \in DOMAIN gpu : gpu[i].released = 1)

\* C8 witness: destroy() after a settled resize.
C8_Witness ==
    /\ status = "destroyed"
    /\ Regenerations = 1
    /\ Len(gpu) > 9

\* C9: in a flip phase, a tile with presence 0 in both the source and the
\* target text has invert amount 0 and is drawn without the inversion,
\* whatever its noise and the invert threshold.
C9_EmptyTileNeverInverts ==
    status = "running"
    /\ rendered.fragment.phase \in FlipPhases
    /\ PresenceOf(SourceText(rendered.fragment.phase)) = 0
    /\ PresenceOf(TargetText(rendered.fragment.phase)) = 0
    => /\ rendered.fragment.invert = Zero
       /\ ~rendered.fragment.inverted
       /\ rendered.fragment.gl_FragColor = Transparent

\* C9 witness: such a tile more than half way through its flip, with its
\* noise at or above the invert threshold.
C9_Witness ==
    /\ status = "running"
    /\ rendered.fragment.phase = "flipAB"
    /\ sample.presenceA = 0
    /\ sample.presenceB = 0
    /\ RLess(Half, rendered.fragment.flipProgress)
    /\ RLeq(config.invertThreshold, sample.noise)

\* C10: while the elapsed time lies in a hold phase, every tile has
\* flipAmount 0, source and target are the held text, the inversion is
\* not shown and the output colour is the held text's texel.
C10_HoldPhaseShowsHeldText ==
    status = "running" /\ ExpectedPhase(totalElapsedTime) \in HoldPhases
    => LET held == SourceText(ExpectedPhase(totalElapsedTime))
       IN  /\ rendered.fragment.flipProgress = Zero
           /\ rendered.fragment.source = held
           /\ rendered.fragment.target = held
           /\ ~rendered.fragment.inverted
           /\ rendered.fragment.sourceColor = TexelOf(held)
           /\ rendered.fragment.targetColor = TexelOf(held)
           /\ rendered.fragment.gl_FragColor = TexelOf(held)

\* C10 witness: a draw while text B is held and inked, in which the
\* uninitialised hasTextTarget turned the invert amount into NaN.
C10_Witness ==
    /\ status = "running"
    /\ ExpectedPhase(totalElapsedTime) = "holdB"
    /\ sample.texB = Ink
    /\ rendered.fragment.invert = NaN
    /\ RLeq(config.invertThreshold, sample.noise)

\* What the configuration record must satisfy, one condition per rule.
OrderOK == config.singleTileFlipDuration <= config.allTilesFlipDuration

DurationsPositive ==
    config.allTilesFlipDuration > 0 /\ config.singleTileFlipDuration > 0

ThresholdInRange ==
    RLeq(Zero, config.invertThreshold) /\ RLeq(config.invertThreshold, One)

TileSpecOK ==
    /\ ~(config.tiles # Undefined /\ config.tileDimensions # Undefined)
    /\ (config.tiles # Undefined => config.tiles[1] >= 1 /\ config.tiles[2] >= 1)
    /\ (config.tileDimensions # Undefined =>
           config.tileDimensions[1] > 0 /\ config.tileDimensions[2] > 0)

\* C11: construction fails whenever singleTileFlipDuration >
\* allTilesFlipDuration, and a configuration with singleTileFlipDuration <=
\* allTilesFlipDuration (equality included) that breaks no other rule is
\* constructed.
C11_FlipDurationOrderEnforced ==
    status # "new" =>
        /\ (config.singleTileFlipDuration > config.allTilesFlipDuration
               => status = "failed")
        /\ (OrderOK /\ DurationsPositive /\ ThresholdInRange /\ TileSpecOK
               => status = "running")

\* C11 witness: a construction that failed on the order of the durations
\* alone.
C11_Witness ==
    /\ status = "failed"
    /\ config.singleTileFlipDuration > config.allTilesFlipDuration
    /\ DurationsPositive /\ ThresholdInRange /\ TileSpecOK

\* C12: construction fails whenever invertThreshold is below 0 or above 1,
\* and succeeds at invertThreshold = 0 and = 1 when no other rule is broken.
C12_ThresholdRangeEnforced ==
    status # "new" =>
        /\ (RLess(config.invertThreshold, Zero) \/ RLess(One, config.invertThreshold)
               => status = "failed")
        /\ (config.invertThreshold \in {Zero, One}
            /\ OrderOK /\ DurationsPositive /\ TileSpecOK
               => status = "running")

\* C12 witness: an engine constructed with invertThreshold = 1.
C12_Witness ==
    /\ status = "running"
    /\ config.invertThreshold = One
    /\ uniforms.uInvertThreshold = One

\* C13: construction fails whenever the configuration holds both tile
\* counts and tile-pixel dimensions.
C13_BothTileSpecsRejected ==
    status # "new" /\ config.tiles # Undefined /\ config.tileDimensions # Undefined
        => status = "failed"

\* C13 witness: a construction given both, with nothing else wrong, failed.
C13_Witness ==
    /\ status = "failed"
    /\ options.tiles # NotGiven
    /\ options.tileDimensions = Given(<<4, 8>>)
    /\ OrderOK /\ DurationsPositive /\ ThresholdInRange

\* C14: a caller that passes explicit tile counts of at least 1x1 and no
\* tileDimensions option, with the rest of the configuration valid, gets a
\* constructed engine whose grid is the given counts, after construction
\* and after every settled resize.
C14_TilesOnlyGridFixed ==
    /\ status # "new"
    /\ options.tiles # NotGiven
    /\ options.tileDimensions = NotGiven
    /\ options.tiles[1][1] >= 1 /\ options.tiles[1][2] >= 1
    /\ OrderOK /\ DurationsPositive /\ ThresholdInRange
    => /\ status = "running"
       /\ tiles = options.tiles[1]
       /\ uniforms.uTiles = options.tiles[1]

\* C15: a construction that failed validation left no pending frame
\* callback, no pending timer and no GPU resource: no renderer, texture,
\* presence map, material or geometry was created, and nothing was drawn.
C15_FailedConstructionLeavesNothing ==
    status = "failed" =>
        /\ frameRequests = {}
        /\ timeouts = {}
        /\ gpu = <<>>
        /\ renderer = Undefined
        /\ uniforms = Undefined
        /\ rendered = Undefined
        /\ animationFrame = 0 /\ resizeTimeout = 0
        /\ material = 0 /\ geometry = 0

\* C15 witness: a failed construction.
C15_Witness ==
    /\ status = "failed"
    /\ ~ThresholdInRange
    /\ frameRequests = {}

\* C16: every draw call read six texture uniforms that referenced textures
\* not released at that time, and while the engine runs the six uniforms
\* reference unreleased textures between callbacks, so no callback that
\* draws next can read a released one: a settled resize releases the old
\* generation and repoints all six uniforms in one step.
C16_DrawReadsLiveTextures ==
    /\ Constructed => \A i \in 1..6 : rendered.released[i] = 0
    /\ status = "running" =>
           \A i \in 1..6 : gpu[BoundTextures(uniforms)[i]].released = 0

\* C16 witness: a draw call after a settled resize, reading the new
\* generation while the old one is released.
C16_Witness ==
    /\ status = "running"
    /\ Regenerations = 1
    /\ rendered.textures = BoundTextures(uniforms)
    /\ \A i \in 2..7 : gpu[i].released = 1

\* The largest k with k * d <= w, and the grid the spec states for a
\* viewport of (w, h).
FloorDiv(w, d) == CHOOSE k \in 0..w : k * d <= w /\ (k + 1) * d > w

ClaimedGrid(w, h) ==
    <<Max(1, FloorDiv(w, config.tileDimensions[1])),
      Max(1, FloorDiv(h, config.tileDimensions[2]))>>

\* The sizes of the presence masks the uniforms u point at.
PresenceMaskSizes(u) == {gpu[BoundTextures(u)[i]].size : i \in 4..6}

\* A step that draws: the constructor's first animate() or a frame callback.
DrawStep == Construct \/ \E h \in frameRequests : animate(h)

\* C17: at every draw call uTiles, the engine's grid and the dimensions of
\* the three bound presence masks are equal; in tile-pixel-size mode a
\* settled resize to (w, h) sets the grid to (max(1, floor(w / tileDim.x)),
\* max(1, floor(h / tileDim.y))), pushes it to uTiles and leaves the
\* uniforms on presence masks of that grid, all in the one callback; and
\* every other step of a running engine, a resize call included, leaves
\* the grid, uTiles and the bound masks as they were.
C17_GridUniformAndMasksAgree ==
    [][/\ DrawStep /\ status' = "running" =>
              /\ rendered'.uTiles = tiles'
              /\ {gpu'[rendered'.textures[i]].size : i \in 4..6} = {tiles'}
       /\ \A t \in timeouts :
              resizeSettle(t) /\ useTileDimensions =>
                  /\ tiles' = ClaimedGrid(t.width, t.height)
                  /\ uniforms'.uTiles = tiles'
                  /\ {gpu'[BoundTextures(uniforms')[i]].size : i \in 4..6} = {tiles'}
       /\ status = "running" /\ status' = "running"
          /\ ~(\E t \in timeouts : resizeSettle(t)) =>
              /\ tiles' = tiles
              /\ uniforms'.uTiles = uniforms.uTiles
              /\ BoundTextures(uniforms') = BoundTextures(uniforms)
              /\ \A i \in DOMAIN gpu : gpu'[i] = gpu[i]
      ]_vars

\* C17 witness: a draw call on a grid of 2 x 1 after a resize to 20 x 4
\* settled: 20 / 8 rounds down to 2 and 4 / 8 is raised to 1.
C17_Witness ==
    /\ status = "running"
    /\ useTileDimensions
    /\ tiles = <<2, 1>>
    /\ renderer.size = <<20, 4>>
    /\ rendered.uTiles = <<2, 1>>
    /\ PresenceMaskSizes(uniforms) = {<<2, 1>>}

\* C18: a resize(width, height) call sets the renderer size and the
\* resolution uniform to (width, height) at once and arms the debounce
\* timer for that size; neither the call nor the settle callback changes
\* the elapsed time, the progress, the direction or the progress uniform.
C18_ResizeLeavesAnimationAlone ==
    [][/\ \A size \in Sizes :
              resize(size[1], size[2]) =>
                  /\ renderer'.size = size
                  /\ uniforms'.uResolution = size
                  /\ \E t \in timeouts' :
                         /\ t.id = resizeTimeout'
                         /\ <<t.width, t.height>> = size
                         /\ t.remaining = config.resizeDebounceMs
       /\ (\E size \in Sizes : resize(size[1], size[2]))
          \/ (\E t \in timeouts : resizeSettle(t)) =>
              /\ totalElapsedTime' = totalElapsedTime
              /\ morphProgress' = morphProgress
              /\ direction' = direction
              /\ uniforms'.uMorphProgress = uniforms.uMorphProgress
      ]_vars

\* C18 witness: a resize settled while the animation ran forward, part way
\* through the timeline.
C18_Witness ==
    /\ status = "running"
    /\ Regenerations = 1
    /\ direction = 1
    /\ totalElapsedTime > 0 /\ totalElapsedTime < totalDuration(config)
    /\ uniforms.uMorphProgress = Frac(totalElapsedTime, totalDuration(config))
    /\ uniforms.uResolution = <<20, 4>>

\* C19: while direction is 0 the elapsed time, the progress and the
\* progress uniform are 0, whatever frames and resizes have run; direction
\* leaves 0 only by a setHover call, every setHover call leaves it at +1 or
\* -1, and once it is +1 or -1 no step (frame callback, resize, settle,
\* clamp at a bound, destroy) sets it back to 0.
C19_DirectionNeverReturnsToZero ==
    /\ [](direction \in {-1, 0, 1}
          /\ (status = "running" /\ direction = 0 =>
                 /\ totalElapsedTime = 0
                 /\ morphProgress = Zero
                 /\ uniforms.uMorphProgress = Zero
                 /\ rendered.uMorphProgress = Zero))
    /\ [][/\ (direction # 0 => direction' \in {-1, 1})
          /\ (direction = 0 /\ direction' # 0 => \E hover \in BOOLEAN : setHover(hover))
          /\ ((\E hover \in BOOLEAN : setHover(hover)) => direction' \in {-1, 1})
         ]_vars

\* C19 witness: direction still 0 at a draw call that followed a settled
\* resize, so at least the debounce interval has passed since construction.
C19_Witness ==
    /\ status = "running"
    /\ direction = 0
    /\ Regenerations = 1
    /\ rendered.textures = BoundTextures(uniforms)
    /\ sinceLastFrame = 0

\* The uniforms as the shader sees them when the timeline stands at p.
AtProgress(p) == [uniforms EXCEPT !.uMorphProgress = p]

\* C20: in a constructed engine (0 < singleTileFlipDuration <=
\* allTilesFlipDuration) and for the tile's random value r in [0, 1), the
\* flip window satisfies 0 <= flipWindowStart < flipWindowEnd <= 1 and is
\* singleTileFlipDuration / allTilesFlipDuration long; the flip amount of
\* either flip phase is 0 at phase-local progress 0 and 1 at phase-local
\* progress 1; and a draw call at the first instant of a flip phase shows
\* the source text alone.
C20_FlipWindowInsidePhase ==
    status = "running" =>
        LET r      == sample.noise
            start  == flipWindowStart(uniforms, r)
            end    == flipWindowEnd(uniforms, r)
            single == config.singleTileFlipDuration
            all    == config.allTilesFlipDuration
        IN  /\ 0 < single /\ single <= all
            /\ RLeq(Zero, r) /\ RLess(r, One)
            /\ RLeq(Zero, start) /\ RLess(start, end) /\ RLeq(end, One)
            /\ RSub(end, start) = Frac(single, all)
            /\ FlipBranchProgress(AtProgress(initialWaitEnd(uniforms)), r,
                                  initialWaitEnd(uniforms), flipABEnd(uniforms)) = Zero
            /\ FlipBranchProgress(AtProgress(flipABEnd(uniforms)), r,
                                  initialWaitEnd(uniforms), flipABEnd(uniforms)) = One
            /\ FlipBranchProgress(AtProgress(waitBetweenEnd(uniforms)), r,
                                  waitBetweenEnd(uniforms), flipBCEnd(uniforms)) = Zero
            /\ FlipBranchProgress(AtProgress(flipBCEnd(uniforms)), r,
                                  waitBetweenEnd(uniforms), flipBCEnd(uniforms)) = One
            /\ (rendered.uMorphProgress
                    \in {initialWaitEnd(uniforms), waitBetweenEnd(uniforms)} =>
                   /\ rendered.fragment.phase \in FlipPhases
                   /\ rendered.fragment.flipProgress = Zero
                   /\ rendered.fragment.gl_FragColor = rendered.fragment.sourceColor)

\* C20 witness: a draw call at the first instant of the second flip phase,
\* for a tile whose window is the last one-millisecond window of the phase.
C20_Witness ==
    /\ status = "running"
    /\ config.singleTileFlipDuration = 1
    /\ sample.noise = Frac(99, 100)
    /\ rendered.uMorphProgress = waitBetweenEnd(uniforms)
    /\ rendered.fragment.phase = "flipBC"
    /\ rendered.fragment.flipProgress = Zero
    /\ RLess(Half, flipWindowStart(uniforms, sample.noise))

\* The rectangle the spec states for tile index i of n tiles on an axis of
\* extent pixels: from floor(i * cellSize) up to but excluding
\* min(ceil((i + 1) * cellSize), extent), with cellSize = extent / n.
ClaimedStart(i, n, extent) == (i * extent) \div n

ClaimedEnd(i, n, extent) == Min((((i + 1) * extent) + n - 1) \div n, extent)

ClaimedPixels(tileX, tileY) ==
    {<<x, y>> :
        x \in ClaimedStart(tileX, tiles[1], textCanvas[1])
              .. (ClaimedEnd(tileX, tiles[1], textCanvas[1]) - 1),
        y \in ClaimedStart(tileY, tiles[2], textCanvas[2])
              .. (ClaimedEnd(tileY, tiles[2], textCanvas[2]) - 1)}

OnSurface(p) ==
    p[1] \in 0..(textCanvas[1] - 1) /\ p[2] \in 0..(textCanvas[2] - 1)

\* C21: the presence byte of every scanned tile (i, j) is 255 if some pixel
\* of the stated rectangle has non-zero alpha and 0 otherwise, and no pixel
\* outside the surface is read.
C21_PresenceIsClaimedRectangle ==
    /\ \A k \in 1..Len(presenceData) :
           LET tileX == (k - 1) % tiles[1]
               tileY == (k - 1) \div tiles[1]
           IN  presenceData[k] =
                   IF \E p \in ClaimedPixels(tileX, tileY) :
                          pixels[p[2] * textCanvas[1] + p[1]] # 0
                   THEN 255 ELSE 0
    /\ \A p \in pixelReads : OnSurface(p)

\* The flip amount the formula gives a tile of random value r during the
\* flip phase that the last draw call was in.
DrawnFlipAmount(r) ==
    LET u == AtProgress(rendered.uMorphProgress)
    IN  IF rendered.fragment.phase = "flipAB"
        THEN FlipBranchProgress(u, r, initialWaitEnd(u), flipABEnd(u))
        ELSE FlipBranchProgress(u, r, waitBetweenEnd(u), flipBCEnd(u))

\* C22: a tile whose random value is below invertThreshold has invert
\* amount 0 at every progress value, and during a flip phase its colour is
\* the source texel blended into the target texel by the same flipAmount a
\* tile at or above the threshold gets.
C22_ThresholdGatesOnlyInversion ==
    status = "running" /\ RLess(sample.noise, config.invertThreshold) =>
        /\ rendered.fragment.invert = Zero
        /\ (rendered.fragment.phase \in FlipPhases =>
               /\ rendered.fragment.flipProgress = DrawnFlipAmount(sample.noise)
               /\ rendered.fragment.gl_FragColor =
                      mix(rendered.fragment.sourceColor,
                          rendered.fragment.targetColor,
                          rendered.fragment.flipProgress))

\* C23: with frames of positive delta kept coming and no destroy(), if
\* from some point on the direction is +1 (setHover(true) with no
\* setHover(false) after it) the progress eventually is 1 and stays 1, and
\* if from some point on it is -1 the progress eventually is 0 and stays 0.
C23_ProgressSettlesAtTheHoveredEnd ==
    /\ <>[](direction = 1) =>
           <>[](status = "running" /\ morphProgress = One
                /\ uniforms.uMorphProgress = One
                /\ totalElapsedTime = totalDuration(config))
    /\ <>[](direction = -1) =>
           <>[](status = "running" /\ morphProgress = Zero
                /\ uniforms.uMorphProgress = Zero
                /\ totalElapsedTime = 0)

\* C23 witness: the timeline brought back to 0 by setHover(false) after it
\* had reached the last hold phase.
C23_Witness ==
    /\ status = "running"
    /\ direction = -1
    /\ morphProgress = Zero
    /\ totalElapsedTime = 0
    /\ rendered.fragment.phase = "holdA"
    /\ rendered.uMorphProgress = Zero
    /\ sinceLastFrame = 0

\* The state of the observed tile (source text, target text, flipAmount,
\* invert) as the shader computes it from uniforms u at progress p, when an
\* unassigned local holds g.
TileStateAt(u, p, g) ==
    LET f == FragmentShader([u EXCEPT !.uMorphProgress = p], sample, g)
    IN  <<f.source, f.target, f.flipProgress, f.invert>>

\* C24: the tile state a draw call renders is determined by the progress,
\* the tile's random value, the configuration and the presence masks alone,
\* so that any two draws at the same progress render the same tile state
\* whatever came before; a setHover call leaves the progress where it is,
\* and the frame after it moves the progress by at most that frame's
\* delta / T.
C24_TileStateDependsOnProgressAlone ==
    [][/\ status' = "running" =>
              \A g \in Garbage :
                  TileStateAt(uniforms', rendered'.uMorphProgress, g)
                  = <<rendered'.fragment.source, rendered'.fragment.target,
                      rendered'.fragment.flipProgress, rendered'.fragment.invert>>
       /\ \A hover \in BOOLEAN :
              setHover(hover) =>
                  /\ totalElapsedTime' = totalElapsedTime
                  /\ morphProgress' = morphProgress
                  /\ uniforms'.uMorphProgress = uniforms.uMorphProgress
       /\ \A h \in frameRequests :
              animate(h) =>
                  /\ Abs(totalElapsedTime' - totalElapsedTime) <= sinceLastFrame
                  /\ uniforms'.uMorphProgress = rendered'.uMorphProgress
      ]_vars

=============================================================================
